---- MODULE Spec2Model ----
(***************************************************************************)
(* Model of the Hacker News digest script (src/main.py):                   *)
(*   - fetch_webpage        the tool that fetches and bounds a page's text *)
(*   - fetch_hn_front_page  the front-page parser                          *)
(*   - main                 the orchestrator                               *)
(* Strings are sequences of one-character strings, so that strip, split,   *)
(* substring search, int() and slicing are computed, not assumed.          *)
(***************************************************************************)
EXTENDS Integers, Sequences, FiniteSets, TLC

VARIABLES
    \* fetch_webpage
    fw_pc, fw_url, fw_env, fw_result,
    \* fetch_hn_front_page
    hn_pc, hn_page, hn_pos, hn_articles,
    \* main
    pc, articles, agents, agent, digest_agent, i, summaries, raised,
    fetch_failed, faults, base, digest_prompt, final_digest, file, console

fw_vars == <<fw_pc, fw_url, fw_env, fw_result>>
hn_vars == <<hn_pc, hn_page, hn_pos, hn_articles>>
main_vars == <<pc, articles, agents, agent, digest_agent, i, summaries, raised,
               fetch_failed, faults, base, digest_prompt, final_digest, file, console>>
vars == <<fw_vars, hn_vars, main_vars>>

-----------------------------------------------------------------------------
\* Bounds of the model.

\* Extracted texts are as long as 0..MaxShort, or lie around the limit:
\* MaxContent - MaxUnder .. MaxContent + MaxOver characters.
MaxShort == 2
MaxUnder == 1
MaxOver == 2
\* A front page given to the parser has at most MaxRows table rows.
MaxRows == 4
\* The orchestrator sees front pages of 0..MaxSmall stories, and of
\* BatchCap and BatchCap + MaxExtra stories.
MaxSmall == 3
MaxExtra == 1
\* In one run at most MaxFaults per-story calls deviate from the run's
\* base outcome.
MaxFaults == 1

\* Program constants.
MaxContent == 15000
BatchCap == 30

-----------------------------------------------------------------------------
\* Python string operations on sequences of characters.

NBSP == "nbsp"
Whitespace == {" ", "\n", "\t", NBSP}
Digits == <<"0", "1", "2", "3", "4", "5", "6", "7", "8", "9">>
DigitSet == {Digits[k] : k \in 1..10}

DigitValue(c) == (CHOOSE k \in 1..10 : Digits[k] = c) - 1

RECURSIVE LStrip(_)
LStrip(s) ==
    IF s # <<>> /\ Head(s) \in Whitespace THEN LStrip(Tail(s)) ELSE s

RECURSIVE RStrip(_)
RStrip(s) ==
    IF s # <<>> /\ s[Len(s)] \in Whitespace
    THEN RStrip(SubSeq(s, 1, Len(s) - 1))
    ELSE s

\* str.strip(), the effect of get_text(strip=True) on one text node
Strip(s) == RStrip(LStrip(s))

\* the first token of s, where s does not start with whitespace
RECURSIVE Token(_)
Token(s) ==
    IF s = <<>> \/ Head(s) \in Whitespace THEN <<>>
    ELSE <<Head(s)>> \o Token(Tail(s))

\* str.split(): the maximal runs of non-whitespace characters
RECURSIVE Split(_)
Split(s) ==
    LET t == LStrip(s)
    IN  IF t = <<>> THEN <<>>
        ELSE LET tok == Token(t)
             IN  <<tok>> \o Split(SubSeq(t, Len(tok) + 1, Len(t)))

\* pat in s
Contains(s, pat) ==
    \E k \in 0..(Len(s) - Len(pat)) : SubSeq(s, k + 1, k + Len(pat)) = pat

\* s.startswith(p)
StartsWith(s, p) == Len(s) >= Len(p) /\ SubSeq(s, 1, Len(p)) = p

RECURSIVE DigitsValue(_, _)
DigitsValue(s, acc) ==
    IF s = <<>> THEN acc
    ELSE IF Head(s) = "_" THEN DigitsValue(Tail(s), acc)
    ELSE DigitsValue(Tail(s), 10 * acc + DigitValue(Head(s)))

\* the literals int() accepts: an optional sign, then digits, single
\* underscores allowed between digits
IsIntLiteral(tok) ==
    LET body == IF tok # <<>> /\ Head(tok) \in {"+", "-"} THEN Tail(tok) ELSE tok
    IN  /\ body # <<>>
        /\ \A k \in 1..Len(body) : body[k] \in DigitSet \cup {"_"}
        /\ body[1] \in DigitSet
        /\ body[Len(body)] \in DigitSet
        /\ \A k \in 1..(Len(body) - 1) : ~(body[k] = "_" /\ body[k + 1] = "_")

Ok(v) == [kind |-> "return", value |-> v]
Raise(e) == [kind |-> "raise", value |-> e]

\* int(tok): the value, or ValueError
ParseInt(tok) ==
    IF ~IsIntLiteral(tok) THEN Raise("ValueError")
    ELSE LET neg == Head(tok) = "-"
             body == IF Head(tok) \in {"+", "-"} THEN Tail(tok) ELSE tok
             v == DigitsValue(body, 0)
         IN  Ok(IF neg THEN 0 - v ELSE v)

\* int(text.split()[0]): IndexError when the text has no token
LeadingInt(text) ==
    LET toks == Split(text)
    IN  IF toks = <<>> THEN Raise("IndexError") ELSE ParseInt(toks[1])

-----------------------------------------------------------------------------
\* fetch_webpage(url)

ErrPrefix == <<"E", "r", "r", "o", "r", " ", "f", "e", "t", "c", "h", "i", "n", "g", " ">>
ErrSep == <<":", " ">>
Marker == <<"\n", "\n", "[", "C", "o", "n", "t", "e", "n", "t", " ", "t", "r", "u", "n", "c", "a", "t", "e", "d", ".", ".", ".", "]">>

\* a mutant of Truncate: the slice is taken but the marker is not appended
TruncateNoMarker(text) ==
    IF Len(text) > MaxContent THEN SubSeq(text, 1, MaxContent) ELSE text

\* lines 41-42: if len(text) > 15000: text = text[:15000] + marker
Truncate(text) ==
    IF Len(text) > MaxContent THEN SubSeq(text, 1, MaxContent) \o Marker ELSE text

\* The body of the try block. env is what the network and the page do:
\* env.fail names the statement that raises ("none": no statement does),
\* env.msg the exception's message, env.text the visible text extracted.
TryBody(url, env) ==
    IF env.fail \in {"request", "status", "parse"} THEN Raise(env.msg)
    ELSE Ok(Truncate(env.text))

\* a mutant of FetchWebpage: only errors of the request itself are caught
FetchWebpageRequestOnly(url, env) ==
    LET r == TryBody(url, env)
    IN  IF r.kind = "raise" /\ env.fail = "request"
        THEN Ok(ErrPrefix \o url \o ErrSep \o r.value)
        ELSE r

\* lines 23-46: try: ... except Exception as e: return f"Error fetching {url}: {str(e)}"
FetchWebpage(url, env) ==
    LET r == TryBody(url, env)
    IN  IF r.kind = "raise"
        THEN Ok(ErrPrefix \o url \o ErrSep \o r.value)
        ELSE r

\* the inputs of the model of fetch_webpage
Urls == { <<"a", ".", "i", "o">>, <<"b", ".", "i", "o", "/", "x">>, <<>> }
Messages == { <<"t", "i", "m", "e", "d", " ", "o", "u", "t">>, <<"4", "0", "4">> }
TextLengths == (0..MaxShort) \cup ((MaxContent - MaxUnder)..(MaxContent + MaxOver))
Patterns == { <<"a", "b", "\n">>, <<"x", " ", "y">>, <<"[", "]", ".">> }
TextOf(len, pat) == [k \in 1..len |-> pat[(k % 3) + 1]]
Envs ==
    { [fail |-> f, msg |-> m, text |-> <<>>] :
        f \in {"request", "status", "parse"}, m \in Messages }
    \cup
    { [fail |-> "none", msg |-> <<>>, text |-> TextOf(n, p)] :
        n \in TextLengths, p \in Patterns }

FwInit ==
    /\ fw_pc = "idle"
    /\ fw_url = <<>>
    /\ fw_env = [fail |-> "none", msg |-> <<>>, text |-> <<>>]
    /\ fw_result = Ok(<<>>)

\* the caller (the agent) invokes the tool with a URL
FwCall ==
    /\ UNCHANGED <<hn_vars, main_vars>>
    /\ fw_pc = "idle"
    /\ \E u \in Urls, e \in Envs :
        /\ fw_url' = u
        /\ fw_env' = e
    /\ fw_pc' = "called"
    /\ UNCHANGED fw_result

\* the tool runs to its end
FwFinish ==
    /\ UNCHANGED <<hn_vars, main_vars>>
    /\ fw_pc = "called"
    /\ fw_result' = FetchWebpage(fw_url, fw_env)
    /\ fw_pc' = IF fw_result'.kind = "raise" THEN "raised" ELSE "returned"
    /\ UNCHANGED <<fw_url, fw_env>>

-----------------------------------------------------------------------------
\* fetch_hn_front_page()
\*
\* The front page is the sequence of its <tr> elements, siblings in one
\* table. Of each row the model keeps what the parser selects from it:
\*   athing     the row matches "tr.athing"
\*   titleline  the <a> elements matching "span.titleline > a": [text, href]
\*   score      the texts of the elements matching "span.score"
\*   subtext    the "td.subtext" cells, each the texts of its <a> elements
\*   elsewhere  the texts of the row's <a> elements outside td.subtext
\* select_one takes the first match, or None when there is none.

ItemPrefix == <<"i", "t", "e", "m", "?">>
Origin == <<"h", "t", "t", "p", "s", ":", "/", "/", "n", "e", "w", "s", ".", "y", "c", "o", "m", "b", "i", "n", "a", "t", "o", "r", ".", "c", "o", "m", "/">>
CommentWord == <<"c", "o", "m", "m", "e", "n", "t">>

Row(a, t, s, c, e) ==
    [athing |-> a, titleline |-> t, score |-> s, subtext |-> c, elsewhere |-> e]
StoryRow(t) == Row(TRUE, t, <<>>, <<>>, <<>>)
MetaRow(s, c, e) == Row(FALSE, <<>>, s, c, e)

\* lines 97-103: the loop over the links of the subtext cell
RECURSIVE ScanLinks(_, _)
ScanLinks(links, comments) ==
    IF links = <<>> THEN comments
    ELSE LET text == Strip(Head(links))
             r == LeadingInt(text)
         IN  ScanLinks(Tail(links),
                 IF Contains(text, CommentWord)
                 THEN (IF r.kind = "raise" THEN 0 ELSE r.value)
                 ELSE comments)

\* a mutant of Comments: the links of the whole row are scanned, the first
\* match decides
RECURSIVE FirstMatch(_)
FirstMatch(links) ==
    IF links = <<>> THEN 0
    ELSE LET text == Strip(Head(links))
             r == LeadingInt(text)
         IN  IF Contains(text, CommentWord)
             THEN (IF r.kind = "raise" THEN 0 ELSE r.value)
             ELSE FirstMatch(Tail(links))
CommentsAnyLink(subtext_row) ==
    FirstMatch((IF subtext_row.subtext = <<>> THEN <<>> ELSE Head(subtext_row.subtext))
               \o subtext_row.elsewhere)

\* lines 93-103: subline = subtext_row.select_one("td.subtext"); if subline: ...
Comments(subtext_row) ==
    IF subtext_row.subtext = <<>> THEN 0
    ELSE ScanLinks(Head(subtext_row.subtext), 0)

\* lines 88-91: points = int(score_text.split()[0]), which may raise
Points(subtext_row) ==
    IF subtext_row.score = <<>> THEN Ok(0)
    ELSE LeadingInt(Strip(Head(subtext_row.score)))

\* lines 78-80
AbsoluteLink(link) ==
    IF StartsWith(link, ItemPrefix) THEN Origin \o link ELSE link

Story(title, url, points, comments) ==
    [title |-> title, url |-> url, points |-> points, comments |-> comments]

\* a mutant of ParseRow: a row without a title element is not skipped
ParseRowKeepUntitled(rows, r) ==
    LET row == rows[r]
        title_link == IF row.titleline = <<>> THEN [text |-> <<>>, href |-> <<>>]
                      ELSE Head(row.titleline)
        has_sibling == r < Len(rows)
        points == IF has_sibling THEN Points(rows[r + 1]) ELSE Ok(0)
        comments == IF has_sibling THEN Comments(rows[r + 1]) ELSE 0
    IN  IF points.kind = "raise" THEN Raise(points.value)
        ELSE Ok(<<Story(Strip(title_link.text), AbsoluteLink(title_link.href),
                        points.value, comments)>>)

\* lines 69-113, one iteration of the loop for the row at index r of the
\* page: the stories it appends (none or one), or the exception that the
\* except clause of line 112 turns into "continue".
ParseRow(rows, r) ==
    LET row == rows[r]
    IN  IF row.titleline = <<>> THEN Ok(<<>>)
        ELSE LET title_link == Head(row.titleline)
                 has_sibling == r < Len(rows)
                 points == IF has_sibling THEN Points(rows[r + 1]) ELSE Ok(0)
                 comments == IF has_sibling THEN Comments(rows[r + 1]) ELSE 0
             IN  IF points.kind = "raise" THEN Raise(points.value)
                 ELSE Ok(<<Story(Strip(title_link.text), AbsoluteLink(title_link.href),
                                 points.value, comments)>>)

\* line 66: soup.select("tr.athing"), as indices into the page
RECURSIVE TitleRowsFrom(_, _)
TitleRowsFrom(rows, r) ==
    IF r > Len(rows) THEN <<>>
    ELSE (IF rows[r].athing THEN <<r>> ELSE <<>>) \o TitleRowsFrom(rows, r + 1)
TitleRows(rows) == TitleRowsFrom(rows, 1)

\* lines 68-113: the articles after the first n title rows
RECURSIVE ParseRows(_, _)
ParseRows(rows, n) ==
    IF n = 0 THEN <<>>
    ELSE LET res == ParseRow(rows, TitleRows(rows)[n])
         IN  ParseRows(rows, n - 1) \o (IF res.kind = "raise" THEN <<>> ELSE res.value)

\* lines 61-115, on a front page that was fetched
ParseFrontPage(rows) == ParseRows(rows, Len(TitleRows(rows)))

\* the rows that front pages of the model are made of
A_Ext == [text |-> <<" ", "E", "x", " ">>, href |-> <<"x", ".", "i", "o", "/", "a">>]
A_Item == [text |-> <<"A", "s", "k">>, href |-> <<"i", "t", "e", "m", "?", "i", "d", "=", "1">>]
S_Ext == StoryRow(<< A_Ext >>)
S_Item == StoryRow(<< A_Item >>)
S_Untitled == StoryRow(<<>>)
M_Full == MetaRow(<< <<"4", "2", " ", "p", "o", "i", "n", "t", "s">> >>, << << <<"h", "i", "d", "e">>, <<"7", NBSP, "c", "o", "m", "m", "e", "n", "t", "s">> >> >>, <<>>)
M_Discuss == MetaRow(<< <<"1", " ", "p", "o", "i", "n", "t">> >>, << << <<"h", "i", "d", "e">>, <<"d", "i", "s", "c", "u", "s", "s">> >> >>, <<>>)
M_BadScore == MetaRow(<< <<"p", "o", "i", "n", "t", "s">> >>, << << <<"3", " ", "c", "o", "m", "m", "e", "n", "t", "s">> >> >>, <<>>)
M_EmptyScore == MetaRow(<< <<" ">> >>, << << <<"3", " ", "c", "o", "m", "m", "e", "n", "t", "s">> >> >>, <<>>)
M_Negative == MetaRow(<< <<"-", "3", " ", "p", "o", "i", "n", "t", "s">> >>, << << <<"-", "2", " ", "c", "o", "m", "m", "e", "n", "t", "s">>, <<"1", "_", "0", " ", "c", "o", "m", "m", "e", "n", "t", "s">> >> >>, <<>>)
M_Outside == MetaRow(<< <<"9", " ", "p", "o", "i", "n", "t", "s">> >>, <<>>, << <<"4", " ", "c", "o", "m", "m", "e", "n", "t", "s">> >>)
Rows == { S_Ext, S_Item, S_Untitled, M_Full, M_Discuss, M_BadScore, M_EmptyScore,
          M_Negative, M_Outside }
Pages == UNION { [1..n -> Rows] : n \in 0..MaxRows }

HnInit ==
    /\ hn_pc = "start"
    /\ hn_page = <<>>
    /\ hn_pos = 0
    /\ hn_articles = <<>>

\* lines 57-66: the page is fetched and its title rows selected
HnFetch ==
    /\ UNCHANGED <<fw_vars, main_vars>>
    /\ hn_pc = "start"
    /\ hn_page' \in Pages
    /\ hn_pc' = "rows"
    /\ UNCHANGED <<hn_pos, hn_articles>>

\* lines 68-113: one iteration of "for row in title_rows"
HnRow ==
    /\ UNCHANGED <<fw_vars, main_vars>>
    /\ hn_pc = "rows"
    /\ hn_pos < Len(TitleRows(hn_page))
    /\ LET res == ParseRow(hn_page, TitleRows(hn_page)[hn_pos + 1])
       IN  hn_articles' = hn_articles \o (IF res.kind = "raise" THEN <<>> ELSE res.value)
    /\ hn_pos' = hn_pos + 1
    /\ UNCHANGED <<hn_pc, hn_page>>

\* line 115: return articles
HnReturn ==
    /\ UNCHANGED <<fw_vars, main_vars>>
    /\ hn_pc = "rows"
    /\ hn_pos = Len(TitleRows(hn_page))
    /\ hn_pc' = "returned"
    /\ UNCHANGED <<hn_page, hn_pos, hn_articles>>

-----------------------------------------------------------------------------
\* main()

\* str(n) for n >= 0
RECURSIVE Dec(_)
Dec(n) ==
    IF n < 10 THEN <<Digits[n + 1]>>
    ELSE Dec(n \div 10) \o <<Digits[(n % 10) + 1]>>

\* The front pages the orchestrator runs on: n stories, each a story row
\* followed by its metadata row. Every third story is an in-site link.
FrontStory(k) ==
    StoryRow(<< [text |-> <<"S">> \o Dec(k),
                 href |-> IF k % 3 = 0 THEN <<"i", "t", "e", "m", "?", "i", "d", "=">> \o Dec(k)
                          ELSE <<"x", ".", "i", "o", "/">> \o Dec(k)] >>)
FrontMeta(k) ==
    MetaRow(<< Dec(k) \o <<" ", "p", "o", "i", "n", "t", "s">> >>,
            << << <<"h", "i", "d", "e">>, Dec(k % 5) \o <<NBSP>> \o <<"c", "o", "m", "m", "e", "n", "t", "s">> >> >>,
            <<>>)
RECURSIVE FrontPage(_)
FrontPage(n) ==
    IF n = 0 THEN <<>> ELSE FrontPage(n - 1) \o <<FrontStory(n), FrontMeta(n)>>
ArticleCounts == (0..MaxSmall) \cup {BatchCap, BatchCap + MaxExtra}

\* What happens during one per-story call, chosen by the environment:
\*   "page"   the agent fetches the story's page and returns a summary
\*   "error"  the fetch of the page fails, the agent returns a summary
\*   "raise"  the agent call raises
Outcomes == {"page", "error", "raise"}
\* what the calls of a run do unless they deviate
BaseOutcomes == {"page", "raise"}

\* what the network does for the URL of story k when its fetch fails
FailStages == <<"request", "status", "parse">>
FailEnv(k) ==
    [fail |-> FailStages[(k % 3) + 1],
     msg |-> IF k % 2 = 0 THEN <<"t", "i", "m", "e", "d", " ", "o", "u", "t">> ELSE <<"4", "0", "4">>,
     text |-> <<>>]
PageEnv(k) == [fail |-> "none", msg |-> <<>>, text |-> <<"p">> \o Dec(k)]

\* line 162: articles[:30]
Batch(arts) ==
    SubSeq(arts, 1, IF Len(arts) < BatchCap THEN Len(arts) ELSE BatchCap)

\* a mutant of NoArticles: the early return is never taken
NoArticlesNever(arts) == FALSE

\* line 151: if not articles
NoArticles(arts) == arts = <<>>

\* a mutant of CreateAgent: one shared agent instance is handed out
CreateAgentShared(ags) ==
    IF ags = <<>> THEN [agents |-> << <<>> >>, id |-> 1]
    ELSE [agents |-> ags, id |-> Len(ags)]

\* lines 118-136: create_agent() makes a new agent, with no conversation yet;
\* an agent is the sequence of prompts it has received
CreateAgent(ags) == [agents |-> Append(ags, <<>>), id |-> Len(ags) + 1]

\* lines 166-170: the per-story prompt
StoryPrompt(article) ==
    [kind |-> "summarize", title |-> article.title, url |-> article.url]

\* Line 172, agent(prompt), for story k under outcome o: the agent calls
\* the tool fetch_webpage on the story's URL; an exception leaving the tool
\* or the model leaves the call; otherwise the response is written from
\* the content the tool returned.
AgentCall(k, article, o) ==
    IF o = "raise" THEN Raise(<<"m", "o", "d", "e", "l", " ", "e", "r", "r", "o", "r">>)
    ELSE LET content == FetchWebpage(article.url,
                            IF o = "error" THEN FailEnv(k) ELSE PageEnv(k))
         IN  IF content.kind = "raise" THEN content
             ELSE Ok(<<"r", "e", ":", " ">> \o content.value)

\* lines 174-180
Summary(article, response) ==
    [title |-> article.title, url |-> article.url, points |-> article.points,
     comments |-> article.comments, summary |-> response]

\* a mutant of Collect: a story whose call raised is kept, with the
\* exception's text as its summary
CollectAlways(sums, article, res) == Append(sums, Summary(article, res.value))

\* lines 172-186: the summary is appended when the call returned; the
\* except clause drops the story
Collect(sums, article, res) ==
    IF res.kind = "raise" THEN sums ELSE Append(sums, Summary(article, res.value))

\* a mutant of Processed: an exception ends the loop
ProcessedBreak(k, n, res) == IF res.kind = "raise" THEN n ELSE k

\* lines 162, 186: the iteration for story k of n leaves k stories
\* processed, whether the call returned or raised ("continue"), and the
\* loop goes on with story k + 1
Processed(k, n, res) == k

\* lines 200-206: the block of one summary in the digest prompt
Block(s) ==
    [title |-> s.title, points |-> s.points, comments |-> s.comments,
     url |-> s.url, summary |-> s.summary]

\* a mutant of DigestPrompt: with no summary the prompt is left empty
DigestPromptOrNone(sums) ==
    IF sums = <<>> THEN <<>>
    ELSE <<"header">> \o [k \in 1..Len(sums) |-> Block(sums[k])] \o <<"instructions">>

\* lines 193-217: the header, one block per summary, the instructions
DigestPrompt(sums) ==
    <<"header">> \o [k \in 1..Len(sums) |-> Block(sums[k])] \o <<"instructions">>

MainStart(b) ==
    /\ pc = "start"
    /\ articles = <<>>
    /\ agents = <<>>
    /\ agent = 0
    /\ digest_agent = 0
    /\ i = 0
    /\ summaries = <<>>
    /\ raised = {}
    /\ fetch_failed = {}
    /\ faults = 0
    /\ base = b
    /\ digest_prompt = <<>>
    /\ final_digest = <<>>
    /\ file = <<>>
    /\ console = <<>>

MainInit == \E b \in BaseOutcomes : MainStart(b)

\* lines 148-149: the front page is fetched and parsed
MainFetch ==
    /\ UNCHANGED <<fw_vars, hn_vars>>
    /\ pc = "start"
    /\ \E n \in ArticleCounts : articles' = ParseFrontPage(FrontPage(n))
    /\ console' = Append(console, "Found articles")
    /\ pc' = "fetched"
    /\ UNCHANGED <<agents, agent, digest_agent, i, summaries, raised, fetch_failed,
                   faults, base, digest_prompt, final_digest, file>>

\* lines 57-59: the request for the front page fails, or raise_for_status
\* raises; nothing in main catches it
MainFetchRaises ==
    /\ UNCHANGED <<fw_vars, hn_vars>>
    /\ pc = "start"
    /\ pc' = "crashed"
    /\ UNCHANGED <<articles, agents, agent, digest_agent, i, summaries, raised,
                   fetch_failed, faults, base, digest_prompt, final_digest, file,
                   console>>

\* lines 151-153
MainNoArticles ==
    /\ UNCHANGED <<fw_vars, hn_vars>>
    /\ pc = "fetched"
    /\ NoArticles(articles)
    /\ console' = Append(console, "No articles found. Exiting.")
    /\ pc' = "exited"
    /\ UNCHANGED <<articles, agents, agent, digest_agent, i, summaries, raised,
                   fetch_failed, faults, base, digest_prompt, final_digest, file>>

\* lines 156-159
MainCreateAgent ==
    /\ UNCHANGED <<fw_vars, hn_vars>>
    /\ pc = "fetched"
    /\ ~NoArticles(articles)
    /\ agents' = CreateAgent(agents).agents
    /\ agent' = CreateAgent(agents).id
    /\ summaries' = <<>>
    /\ i' = 0
    /\ pc' = "loop"
    /\ UNCHANGED <<articles, digest_agent, raised, fetch_failed, faults, base,
                   digest_prompt, final_digest, file, console>>

\* lines 162-186: one iteration of the loop, for story i + 1 of the batch
MainSummarize ==
    /\ UNCHANGED <<fw_vars, hn_vars>>
    /\ pc = "loop"
    /\ i < Len(Batch(articles))
    /\ \E o \in Outcomes :
        /\ o = base \/ faults < MaxFaults
        /\ faults' = IF o = base THEN faults ELSE faults + 1
        /\ LET k == i + 1
               article == Batch(articles)[k]
               res == AgentCall(k, article, o)
           IN  /\ agents' = [agents EXCEPT ![agent] = Append(@, StoryPrompt(article))]
               /\ fetch_failed' = IF o = "error" THEN fetch_failed \cup {k}
                                  ELSE fetch_failed
               /\ summaries' = Collect(summaries, article, res)
               /\ raised' = IF res.kind = "raise" THEN raised \cup {k} ELSE raised
               /\ console' = Append(console, IF res.kind = "raise" THEN "Skipped"
                                             ELSE "Summarized successfully")
               /\ i' = Processed(k, Len(Batch(articles)), res)
    /\ UNCHANGED <<pc, articles, agent, digest_agent, base, digest_prompt,
                   final_digest, file>>

\* lines 188-217: the loop is over, the digest prompt is built
MainBuildPrompt ==
    /\ UNCHANGED <<fw_vars, hn_vars>>
    /\ pc = "loop"
    /\ i >= Len(Batch(articles))
    /\ digest_prompt' = DigestPrompt(summaries)
    /\ pc' = "prompt_built"
    /\ UNCHANGED <<articles, agents, agent, digest_agent, i, summaries, raised,
                   fetch_failed, faults, base, final_digest, file, console>>

\* line 220: digest_agent = create_agent()
MainCreateDigestAgent ==
    /\ UNCHANGED <<fw_vars, hn_vars>>
    /\ pc = "prompt_built"
    /\ agents' = CreateAgent(agents).agents
    /\ digest_agent' = CreateAgent(agents).id
    /\ pc' = "digest_agent_created"
    /\ UNCHANGED <<articles, agent, i, summaries, raised, fetch_failed, faults,
                   base, digest_prompt, final_digest, file, console>>

\* line 221: the digest call returns
MainDigestReturns ==
    /\ UNCHANGED <<fw_vars, hn_vars>>
    /\ pc = "digest_agent_created"
    /\ agents' = [agents EXCEPT ![digest_agent] =
                      Append(@, [kind |-> "digest", blocks |-> digest_prompt])]
    /\ final_digest' = <<"digest of", Len(digest_prompt) - 2, "summaries">>
    /\ pc' = "digest_returned"
    /\ UNCHANGED <<articles, agent, digest_agent, i, summaries, raised,
                   fetch_failed, faults, base, digest_prompt, file, console>>

\* line 221: the digest call raises; nothing in main catches it
MainDigestRaises ==
    /\ UNCHANGED <<fw_vars, hn_vars>>
    /\ pc = "digest_agent_created"
    /\ agents' = [agents EXCEPT ![digest_agent] =
                      Append(@, [kind |-> "digest", blocks |-> digest_prompt])]
    /\ pc' = "crashed"
    /\ UNCHANGED <<articles, agent, digest_agent, i, summaries, raised,
                   fetch_failed, faults, base, digest_prompt, final_digest, file,
                   console>>

\* lines 224-239: the file is written, the digest printed
MainWrite ==
    /\ UNCHANGED <<fw_vars, hn_vars>>
    /\ pc = "digest_returned"
    /\ file' = <<"# Hacker News Digest - date", final_digest>>
    /\ console' = console \o <<"Digest saved", final_digest>>
    /\ pc' = "done"
    /\ UNCHANGED <<articles, agents, agent, digest_agent, i, summaries, raised,
                   fetch_failed, faults, base, digest_prompt, final_digest>>

-----------------------------------------------------------------------------
\* The specifications.

FwNext == FwCall \/ FwFinish
HnNext == HnFetch \/ HnRow \/ HnReturn
MainNext ==
    \/ MainFetch
    \/ MainFetchRaises
    \/ MainNoArticles
    \/ MainCreateAgent
    \/ MainSummarize
    \/ MainBuildPrompt
    \/ MainCreateDigestAgent
    \/ MainDigestReturns
    \/ MainDigestRaises
    \/ MainWrite

Init == FwInit /\ HnInit /\ MainInit
InitIdle == FwInit /\ HnInit /\ MainStart("page")

\* a run of main()
Spec == Init /\ [][MainNext]_vars
\* a call of fetch_hn_front_page()
SpecParse == InitIdle /\ [][HnNext]_vars
\* a call of fetch_webpage()
SpecFetch == InitIdle /\ [][FwNext]_vars

-----------------------------------------------------------------------------
\* Properties of main(), checked under Spec.

\* articles[:30], written out
FirstStories == 
    [k \in 1..(IF Len(articles) < BatchCap THEN Len(articles) ELSE BatchCap) |->
        articles[k]]

StoryOf(s) == Story(s.title, s.url, s.points, s.comments)

\* the stories 1..k of the batch whose number is not in dropped, in order
RECURSIVE Kept(_, _, _)
Kept(batch, k, dropped) ==
    IF k = 0 THEN <<>>
    ELSE Kept(batch, k - 1, dropped) \o (IF k \in dropped THEN <<>> ELSE <<batch[k]>>)

\* where the summary of story k stands, when its call did not raise
SlotOf(k) == k - Cardinality({ r \in raised : r < k })

\* the prompts of one kind, over all agents
RECURSIVE CountKind(_, _)
CountKind(prompts, kind) ==
    IF prompts = <<>> THEN 0
    ELSE (IF Head(prompts).kind = kind THEN 1 ELSE 0) + CountKind(Tail(prompts), kind)
RECURSIVE CountIn(_, _)
CountIn(ags, kind) ==
    IF ags = <<>> THEN 0 ELSE CountKind(Head(ags), kind) + CountIn(Tail(ags), kind)
PromptCount(kind) == CountIn(agents, kind)

\* C1: in every state of a run there are at most as many summaries as
\* stories in the batch, the batch is the first 30 articles at most, and the
\* summaries are, in order, the stories processed so far whose call did not
\* raise.
C1_SummariesAreSucceededStories ==
    /\ Len(FirstStories) <= BatchCap
    /\ i <= Len(FirstStories)
    /\ Len(summaries) <= Len(FirstStories)
    /\ raised \subseteq 1..i
    /\ [j \in 1..Len(summaries) |-> StoryOf(summaries[j])] = Kept(FirstStories, i, raised)

C1_Witness ==
    /\ Len(articles) > BatchCap
    /\ i = BatchCap
    /\ raised # {}
    /\ Len(summaries) = BatchCap - 1

\* C2: once the front page has parsed to no story, the run can only print
\* the message and return; no agent exists, no call was made, no file or
\* prompt was written, and after the return nothing more happens.
C2_EmptyFrontPageExits ==
    (pc \in {"fetched", "exited"} /\ articles = <<>>) \/ pc = "exited" =>
        /\ articles = <<>>
        /\ agents = <<>> /\ agent = 0 /\ digest_agent = 0
        /\ summaries = <<>>
        /\ digest_prompt = <<>> /\ final_digest = <<>> /\ file = <<>>
        /\ pc = "fetched" =>
            /\ ENABLED MainNoArticles
            /\ ~ENABLED (MainCreateAgent \/ MainSummarize \/ MainBuildPrompt
                         \/ MainCreateDigestAgent \/ MainDigestReturns
                         \/ MainDigestRaises \/ MainWrite)
        /\ pc = "exited" =>
            /\ console[Len(console)] = "No articles found. Exiting."
            /\ ~ENABLED MainNext

C2_Witness == pc = "exited" /\ console # <<>>

AllRaised ==
    /\ FirstStories # <<>>
    /\ i = Len(FirstStories)
    /\ raised = 1..Len(FirstStories)

C4_EveryStoryAttemptedOnce ==
    agent # 0 =>
        /\ i <= Len(FirstStories)
        /\ agents[agent] = [k \in 1..i |-> StoryPrompt(FirstStories[k])]
        /\ raised \subseteq 1..i
        /\ Len(summaries) = i - Cardinality(raised)
        /\ \A k \in 1..i : k \notin raised =>
               summaries[SlotOf(k)].title = FirstStories[k].title
        /\ pc # "loop" => i = Len(FirstStories)
        /\ pc = "crashed" => digest_agent # 0

C4_Witness ==
    /\ pc = "done"
    /\ Len(FirstStories) = BatchCap
    /\ Len(agents[agent]) = BatchCap
    /\ \E k \in raised : k < BatchCap /\ k + 1 \notin raised

\* C5: the per-story prompts all go to the agent created before the loop;
\* the digest prompt is sent once, after every story of the batch was
\* processed, to another agent, created after the loop, that has received
\* nothing else; the file is written only once that call has returned.
C5_DigestOnFreshAgent ==
    agent # 0 =>
        /\ \A a \in 1..Len(agents) : \A j \in 1..Len(agents[a]) :
              /\ agents[a][j].kind = "summarize" => a = agent
              /\ agents[a][j].kind = "digest" =>
                    /\ a = digest_agent
                    /\ Len(agents[a]) = 1
                    /\ i = Len(FirstStories)
                    /\ Len(agents[agent]) = Len(FirstStories)
        /\ PromptCount("digest") <= 1
        /\ digest_agent # 0 =>
              /\ digest_agent # agent
              /\ digest_agent <= Len(agents)
              /\ i = Len(FirstStories)
              /\ Len(agents[agent]) = Len(FirstStories)
        /\ pc \in {"loop", "prompt_built"} => digest_agent = 0
        /\ pc = "digest_agent_created" => agents[digest_agent] = <<>>
        /\ pc \in {"digest_returned", "done", "crashed"} => PromptCount("digest") = 1
        /\ final_digest # <<>> => pc \in {"digest_returned", "done"}
        /\ file # <<>> => final_digest # <<>> /\ PromptCount("digest") = 1
        /\ pc = "done" => file # <<>>

C5_Witness ==
    /\ pc = "done"
    /\ file # <<>>
    /\ Len(agents) = 2
    /\ Len(agents[agent]) = BatchCap
    /\ Len(agents[digest_agent]) = 1

\* C9: fetch_webpage returns "Error fetching {url}: {message}" whichever
\* statement of it fails (the request, the status check, the parsing), and
\* never raises: a story whose fetch failed is not skipped, its summary is
\* written from that string.
C9_FetchErrorsAreContent ==
    \A k \in fetch_failed :
        /\ k \notin raised
        /\ SlotOf(k) \in 1..Len(summaries)
        /\ StoryOf(summaries[SlotOf(k)]) = FirstStories[k]
        /\ LET text == summaries[SlotOf(k)].summary
               url == FirstStories[k].url
               msg == FailEnv(k).msg
               a == Len(<<"r", "e", ":", " ", "E", "r", "r", "o", "r", " ", "f", "e", "t", "c", "h", "i", "n", "g", " ">>)
           IN  /\ Len(text) = a + Len(url) + 2 + Len(msg)
               /\ SubSeq(text, 1, a) = <<"r", "e", ":", " ", "E", "r", "r", "o", "r", " ", "f", "e", "t", "c", "h", "i", "n", "g", " ">>
               /\ SubSeq(text, a + 1, a + Len(url)) = url
               /\ SubSeq(text, a + Len(url) + 1, a + Len(url) + 2) = <<":", " ">>
               /\ SubSeq(text, a + Len(url) + 3, Len(text)) = msg

C9_Witness ==
    /\ pc = "done"
    /\ fetch_failed # {}
    /\ Len(FirstStories) = BatchCap
    /\ Len(summaries) = BatchCap

-----------------------------------------------------------------------------
\* Properties of fetch_webpage(), checked under SpecFetch.

\* C10: a successful fetch of more than 15,000 characters of text returns
\* its first 15,000 characters followed by the marker; a text of 15,000
\* characters or fewer is returned as it is; the result is never longer than
\* 15,000 characters plus the marker.
C10_TruncatedToLimit ==
    (fw_pc = "returned" /\ fw_env.fail = "none") =>
        LET text == fw_env.text
            out == fw_result.value
        IN  /\ fw_result.kind = "return"
            /\ Len(out) <= MaxContent + Len(Marker)
            /\ Len(text) <= MaxContent => out = text
            /\ Len(text) > MaxContent =>
                  /\ Len(out) = MaxContent + Len(Marker)
                  /\ \A k \in 1..MaxContent : out[k] = text[k]
                  /\ \A k \in 1..Len(Marker) : out[MaxContent + k] = Marker[k]

C10_Witness ==
    /\ fw_pc = "returned"
    /\ fw_env.fail = "none"
    /\ Len(fw_env.text) > MaxContent
    /\ Len(fw_result.value) = MaxContent + Len(Marker)

-----------------------------------------------------------------------------
\* Properties of fetch_hn_front_page(), checked under SpecParse.

\* the title row the loop is at
CurRow == TitleRows(hn_page)[hn_pos + 1]

\* the text starts with a token that int() accepts
StartsWithInteger(text) ==
    LET toks == Split(Strip(text))
    IN  toks # <<>> /\ IsIntLiteral(toks[1])

\* the text starts with a token of digits only
StartsWithNatural(text) ==
    LET toks == Split(Strip(text))
    IN  toks # <<>> /\ \A k \in 1..Len(toks[1]) : toks[1][k] \in DigitSet

IntOrZero(text) ==
    IF StartsWithInteger(text) THEN ParseInt(Split(Strip(text))[1]).value ELSE 0

MentionsComment(text) == Contains(Strip(text), CommentWord)

\* a story row with a title, whose metadata row has a score that does not
\* start with an integer
MalformedScoreRow(rows, r) ==
    /\ rows[r].titleline # <<>>
    /\ r < Len(rows)
    /\ rows[r + 1].score # <<>>
    /\ ~StartsWithInteger(Head(rows[r + 1].score))

\* C6 as stated: a story row whose score is malformed is still emitted, as a
\* Story with points = 0.
C6_Original ==
    \A n \in 1..hn_pos :
        LET r == TitleRows(hn_page)[n]
        IN  MalformedScoreRow(hn_page, r) =>
                \E j \in 1..Len(hn_articles) :
                    /\ hn_articles[j].title = Strip(Head(hn_page[r].titleline).text)
                    /\ hn_articles[j].points = 0

\* a metadata row as the front page has them: a score, if any, that starts
\* with a number, and links whose counts, if any, are not negative
WellFormedMeta(m) ==
    /\ ~m.athing
    /\ m.score # <<>> => StartsWithNatural(Head(m.score))
    /\ m.subtext # <<>>
    /\ \A c \in 1..Len(m.subtext) : \A k \in 1..Len(m.subtext[c]) :
          LET text == m.subtext[c][k]
          IN  MentionsComment(text) /\ StartsWithInteger(text)
                  => StartsWithNatural(text)

\* a story row with a title that is not blank, followed by its metadata row
WellFormedStory(rows, r) ==
    /\ rows[r].athing
    /\ rows[r].titleline # <<>>
    /\ Strip(Head(rows[r].titleline).text) # <<>>
    /\ r < Len(rows)
    /\ WellFormedMeta(rows[r + 1])

\* every story row of the page is well formed, or has no title element
WellFormedPage(rows) ==
    \A r \in 1..Len(rows) :
        rows[r].athing => rows[r].titleline = <<>> \/ WellFormedStory(rows, r)

\* the well-formed story rows among the first n title rows, in page order
RECURSIVE WellFormedAmong(_, _)
WellFormedAmong(rows, n) ==
    IF n = 0 THEN <<>>
    ELSE LET r == TitleRows(rows)[n]
         IN  WellFormedAmong(rows, n - 1)
             \o (IF WellFormedStory(rows, r) THEN <<r>> ELSE <<>>)

\* C7: on a page whose story rows are well formed and followed by a
\* metadata row, or have no title element, the parser emits one Story for
\* each well-formed row, in page order, with the row's title, not blank, and
\* points and comments that are natural numbers; the rows without a title
\* emit nothing.
C7_OneStoryPerWellFormedRow ==
    WellFormedPage(hn_page) =>
        LET wf == WellFormedAmong(hn_page, hn_pos)
        IN  /\ Len(hn_articles) = Len(wf)
            /\ \A j \in 1..Len(wf) :
                  /\ hn_articles[j].title = Strip(Head(hn_page[wf[j]].titleline).text)
                  /\ hn_articles[j].title # <<>>
                  /\ hn_articles[j].points \in Nat
                  /\ hn_articles[j].comments \in Nat
            /\ hn_pc = "returned" => hn_pos = Len(TitleRows(hn_page))

C7_Witness ==
    /\ hn_pc = "returned"
    /\ WellFormedPage(hn_page)
    /\ Len(hn_articles) = 2
    /\ hn_articles[1].title # hn_articles[2].title
    /\ hn_articles[1].points # hn_articles[2].points

\* the HnRow step appends a Story for a row that has a following row
EmitsWithMetadata ==
    /\ hn_pc = "rows"
    /\ hn_pos' = hn_pos + 1
    /\ Len(hn_articles') = Len(hn_articles) + 1
    /\ CurRow < Len(hn_page)

RECURSIVE Flatten(_)
Flatten(cells) == IF cells = <<>> THEN <<>> ELSE Head(cells) \o Flatten(Tail(cells))

\* C8 as stated: comments is decided by a link of the metadata row, wherever
\* in the row, whose text contains "comment": the leading integer of that
\* link, 0 when it has none; 0 when no link contains "comment".
C8_Original ==
    [][ EmitsWithMetadata =>
          LET m == hn_page[CurRow + 1]
              links == Flatten(m.subtext) \o m.elsewhere
              c == hn_articles'[Len(hn_articles')].comments
          IN  IF \E k \in 1..Len(links) : MentionsComment(links[k])
              THEN \E k \in 1..Len(links) :
                      MentionsComment(links[k]) /\ c = IntOrZero(links[k])
              ELSE c = 0 ]_vars

\* C8, amended: the links scanned are those inside the metadata row's
\* td.subtext cell; the last of them whose text contains "comment" decides:
\* comments is its leading integer, 0 when it has none; comments is 0 when
\* no such link contains "comment" or the row has no td.subtext cell.
C8_CommentsFromSubtextLinks ==
    [][ EmitsWithMetadata =>
          LET m == hn_page[CurRow + 1]
              links == IF m.subtext = <<>> THEN <<>> ELSE Head(m.subtext)
              hits == { k \in 1..Len(links) : MentionsComment(links[k]) }
              c == hn_articles'[Len(hn_articles')].comments
          IN  IF hits = {} THEN c = 0
              ELSE c = IntOrZero(links[CHOOSE k \in hits : \A h \in hits : h <= k]) ]_vars

C8_Witness ==
    /\ hn_pos = 1
    /\ Len(hn_page) >= 2
    /\ hn_page[1].athing
    /\ hn_page[2].subtext # <<>>
    /\ \E k \in 1..Len(hn_page[2].subtext[1]) : MentionsComment(hn_page[2].subtext[1][k])
    /\ Len(hn_articles) = 1
    /\ hn_articles[1].comments = 7

====
